---------------------------- MODULE Spec2Model ----------------------------
(***************************************************************************)
(* RLTrader: the Bitcoin trading environment (src/env/BitcoinTradingEnv.py)*)
(* and the hyperparameter search driver (src/optimize.py) as state         *)
(* machines.                                                               *)
(*                                                                         *)
(* Numbers.  The environment computes in binary floating point.  A float   *)
(* is modelled as the integer number of units of 2^-FracBits it holds, and *)
(* every arithmetic operation rounds its exact result to MantBits          *)
(* significant bits, ties to even, as IEEE 754 does with 53 bits.          *)
(***************************************************************************)
EXTENDS Integers, Sequences, FiniteSets, TLC

\* ------------------------------------------------------------- bounds
\* significant bits of a float (53 in the program's doubles)
MantBits == 4
\* a float is a multiple of 2^-FracBits (the smallest subnormal step)
FracBits == 8
\* longest price table (rows of df)
MaxLen == 4
\* the forecast horizon n_forecasts the environments are built with (10 by default)
Forecasts == 1
\* trials running at once (n_jobs = 4 in optimize.py)
Jobs == 2
\* training timesteps of a trial (n_timesteps = 5000 in optimize.py)
Timesteps == 2
\* training timesteps of one update of model.learn (n_steps of the sampled agent)
Batch == 1
\* training timesteps between evaluations (evaluation_interval = 250 in optimize.py)
evaluation_interval == 2
\* test episodes of an evaluation (n_test_episodes = 5 in optimize.py)
TestEpisodes == 2

\* ------------------------------------------------------ float arithmetic
Unit == 2 ^ FracBits

MantLimit == 2 ^ MantBits

\* the gap between neighbouring floats around q units: 1 below 2^MantBits units,
\* doubling with every further bit
RECURSIVE Spacing(_)
Spacing(q) == IF q < MantLimit THEN 1 ELSE 2 * Spacing(q \div 2)

\* k + r/d rounded to an integer, ties to even (twice_r is 2 * r)
NearestEven(k, twice_r, d) ==
    IF twice_r < d THEN k
    ELSE IF twice_r > d THEN k + 1
    ELSE k + (k % 2)

RoundBy(num, d, s) == s * NearestEven(num \div d, 2 * (num % d), d)
\* num/den >= 0 (in units) rounded to the nearest float, ties to even
RoundMag(num, den) == RoundBy(num, den * Spacing(num \div den), Spacing(num \div den))

Round(num, den) == IF num < 0 THEN 0 - RoundMag(0 - num, den) ELSE RoundMag(num, den)

\* the float nearest to the decimal literal num/den
Lit(num, den) == Round(num * Unit, den)

FAdd(x, y) == Round(x + y, 1)
FSub(x, y) == Round(x - y, 1)
FMul(x, y) == Round(x * y, Unit)
FDiv(x, y) == IF y < 0 THEN Round((0 - x) * Unit, 0 - y) ELSE Round(x * Unit, y)
\* Python's min(a, b): b only when b < a
PyMin(a, b) == IF b < a THEN b ELSE a

\* the literals 1, 10 and 0.01 of the program, as floats
One == Lit(1, 1)
Ten == Lit(10, 1)
Cent == Lit(1, 100)


\* ------------------------------------------------- construction arguments
\* Discrete(12): the declared action codes are 0 .. n_actions - 1
n_actions == 12
ActionCodes == 0 .. (n_actions - 1)
\* codes a caller can pass that the declared action space does not hold
OutOfRangeCodes == {0 - 1, n_actions}
\* Close prices of the price table
ClosePrices == {Lit(3, 1), Lit(40, 1)}
\* commission rates in [0, 1)
Commissions == {0, Lit(1, 4)}
RewardFuncs == {"sortino", "sterling", "omega", "other"}
\* initial_balance argument of the constructor
initial_balance == Lit(13, 1)
\* the price tables of n rows. The rows before n_forecasts feed only the features
\* and the forecast of the observation, never a price: they hold one value.
FirstPrice == CHOOSE p \in ClosePrices : \A q \in ClosePrices : p <= q
TablesOfLen(n) ==
    {t \in [1 .. n -> ClosePrices] : \A i \in 1 .. n : i <= Forecasts => t[i] = FirstPrice}
PriceTables == UNION {TablesOfLen(n) : n \in 1 .. MaxLen}
\* the columns of self.df after reset_index() and add_indicators: the index, the
\* date and the price, volume and indicator columns
DataColumns == {"index", "Date", "Close", "Volume BTC", "RSI"}
\* price tables with and without a Date column
ColumnSets == {DataColumns, DataColumns \ {"Date"}}
\* the step indices whose window [: step + n_forecasts + 1] SARIMAX cannot fit;
\* the fit is a function of the table and the window, so of the step index
Unfits == {{}, {0}, {1}}

VARIABLES
    df,               \* the Close column of self.df
    n_forecasts,      \* self.n_forecasts
    commission,       \* self.commission
    reward_func,      \* self.reward_func
    columns,          \* self.df.columns
    unfit,            \* the step indices at which forecast_model.fit raises
    viewer,           \* self.viewer: "None" or the graph render('human') builds
    is_reset,         \* reset() has run: the Ledger attributes exist
    balance,          \* self.balance
    btc_held,         \* self.btc_held
    net_worths,       \* self.net_worths
    account_history,  \* self.account_history, a sequence of 5-row columns
    trades,           \* self.trades
    current_step,     \* self.current_step
    returned,         \* the latest reset()/step() call: its argument, the step index
                      \* it was made at, and what it returned or raised
    past_done,        \* step() was called after a step returned done = True
    undeclared        \* step() was called with a code outside the action space

envVars == <<df, n_forecasts, commission, reward_func, columns, unfit, viewer, is_reset,
             balance, btc_held, net_worths, account_history, trades, current_step,
             returned, past_done, undeclared>>
\* what __init__ sets and reset() and step() only read
settings == <<df, n_forecasts, commission, reward_func, columns, unfit, viewer>>

Last(s) == s[Len(s)]

\* ------------------------------------------------------------ the environment
\* _current_price at step index step (Python indexes from 0, sequences from 1)
PriceAt(step) == FAdd(df[step + n_forecasts + 1], Cent)
_current_price == PriceAt(current_step)
\* df['Close'].values[current_step + n_forecasts] is inside the table
PriceInRange == current_step + n_forecasts < Len(df)

\* a decoding that takes the type from the remainder
action_type_by_remainder(action) == action % 3
\* int(action / 4): true division, truncated toward zero
action_type(action) == IF action >= 0 THEN action \div 4 ELSE 0 - ((0 - action) \div 4)
\* 1 / (action % 4 + 1); Python's % takes the sign of the divisor
amount(action) == FDiv(One, Lit((action % 4) + 1, 1))

\* price = current_price * (1 + commission) and current_price * (1 - commission)
buy_price(current_price) == FMul(current_price, FAdd(One, commission))
sell_price(current_price) == FMul(current_price, FSub(One, commission))

\* min(balance * amount / price, balance / price)
btc_bought(amt, price) == PyMin(FDiv(FMul(balance, amt), price), FDiv(balance, price))
\* btc_bought * price
cost(bought, price) == FMul(bought, price)
\* btc_held * amount
btc_sold(amt) == FMul(btc_held, amt)
\* btc_sold * price
sales(sold, price) == FMul(sold, price)
\* the net worth taken before the trade is applied
net_worth_before_trade(bal, held, current_price) ==
    FAdd(balance, FMul(btc_held, current_price))
\* balance + btc_held * current_price, after the trade
net_worth(bal, held, current_price) == FAdd(bal, FMul(held, current_price))
\* a trade log that gets an entry on every step
log_every_step(bought, paid, sold, received) ==
    Append(trades,
           [step |-> current_step,
            amount |-> IF sold > 0 THEN sold ELSE bought,
            total |-> IF sold > 0 THEN received ELSE paid,
            type |-> IF sold > 0 THEN "sell" ELSE "buy"])
\* the trade log after a trade of bought or sold coins
log_trade(bought, paid, sold, received) ==
    IF sold > 0 \/ bought > 0
    THEN Append(trades,
                [step |-> current_step,
                 amount |-> IF sold > 0 THEN sold ELSE bought,
                 total |-> IF sold > 0 THEN received ELSE paid,
                 type |-> IF sold > 0 THEN "sell" ELSE "buy"])
    ELSE trades

\* _take_action(action): the Ledger it leaves
_take_action(action) ==
    LET current_price == _current_price
        atype == action_type(action)
        amt == amount(action)
        price == IF atype = 0 THEN buy_price(current_price)
                 ELSE sell_price(current_price)
        bought == IF atype = 0 THEN btc_bought(amt, price) ELSE 0
        paid == IF atype = 0 THEN cost(bought, price) ELSE 0
        sold == IF atype = 1 THEN btc_sold(amt) ELSE 0
        received == IF atype = 1 THEN sales(sold, price) ELSE 0
        held == IF atype = 0 THEN FAdd(btc_held, bought)
                ELSE IF atype = 1 THEN FSub(btc_held, sold)
                ELSE btc_held
        bal == IF atype = 0 THEN FSub(balance, paid)
               ELSE IF atype = 1 THEN FAdd(balance, received)
               ELSE balance
    IN  [balance |-> bal,
         btc_held |-> held,
         trades |-> log_trade(bought, paid, sold, received),
         net_worth |-> net_worth(bal, held, current_price),
         column |-> <<bal, bought, paid, sold, received>>]

\* the table log_and_difference returns has the columns of self.df
stationary_columns == columns
\* self.obs_shape[1]
obs_shape == 5 + Cardinality(columns) - 2 + (n_forecasts * 3)
\* stationary_df.columns.difference(['index', 'Date'])
features == stationary_columns \ {"index", "Date"}

\* MinMaxScaler().fit_transform on the 5 x N account history scales every column
\* by its own minimum and range (a zero range counts as 1); the observation takes
\* the last column: X * scale_ + min_
ColMin(col) == CHOOSE m \in {col[i] : i \in 1 .. 5} : \A i \in 1 .. 5 : m <= col[i]
ColMax(col) == CHOOSE m \in {col[i] : i \in 1 .. 5} : \A i \in 1 .. 5 : m >= col[i]
ScaledColumn(col) ==
    LET range == FSub(ColMax(col), ColMin(col))
        scale == FDiv(One, IF range = 0 THEN One ELSE range)
        min_ == FSub(0, FMul(ColMin(col), scale))
    IN  [i \in 1 .. 5 |-> FAdd(FMul(col[i], scale), min_)]

\* _next_observation at step index step with account history hist: the window
\* [: step + n_forecasts + 1] of the feature table the scaler and the forecaster
\* read (a slice stops at the table's end), and the scaled last account column
_next_observation(step, hist) ==
    [rows |-> IF step + n_forecasts + 1 < Len(df) THEN step + n_forecasts + 1
              ELSE Len(df),
     scaled |-> Cardinality(features),
     predicted_mean |-> n_forecasts,
     conf_int |-> 2 * n_forecasts,
     account |-> ScaledColumn(Last(hist))]
\* the number of values of an observation before np.reshape
ObsLen(obs) == obs.scaled + obs.predicted_mean + obs.conf_int + Len(obs.account)

\* a reshape that accepts any number of values
ReshapesAny(len) == TRUE
\* np.reshape(obs, self.obs_shape) raises ValueError unless the sizes agree
Reshapes(len) == len = obs_shape
\* forecast_model.fit on the window of step index step returns
Fits(step) == step \notin unfit
\* _next_observation at step index step returns an observation
ObservationBuilt(step, hist) ==
    Fits(step) /\ Reshapes(ObsLen(_next_observation(step, hist)))
\* the exception _next_observation raises otherwise: the fit comes first
ObservationError(step) == IF Fits(step) THEN "ValueError" ELSE "FitError"

\* values a risk-adjusted ratio (sortino_ratio, sterling_ratio, omega_ratio) may
\* return: pure functions of the return series, defined outside the environment
RatioValues == {0, One}
\* a reward that keeps what the selected strategy computed
_reward_of_strategy(nws, ratio) ==
    IF reward_func \in {"sortino", "sterling", "omega"} THEN ratio
    ELSE FSub(nws[Len(nws)], nws[Len(nws) - 1])
\* _reward with net worth history nws; ratio is what the selected strategy
\* computed (no strategy is selected for another reward_func)
_reward(nws, ratio) == FSub(nws[Len(nws)], nws[Len(nws) - 1])

\* a horizon clause that fires one step late
_done_one_late(step, nws) ==
    \/ Last(nws) < FDiv(initial_balance, Ten)
    \/ step = Len(df) - n_forecasts
\* _done at step index step with net worth history nws
_done(step, nws) ==
    \/ Last(nws) < FDiv(initial_balance, Ten)
    \/ step = Len(df) - n_forecasts - 1

NoObs == [rows |-> 0, scaled |-> 0, predicted_mean |-> 0, conf_int |-> 0,
          account |-> [i \in 1 .. 5 |-> 0]]
\* a reset column seeded with zeros only
ZeroColumn == <<0, 0, 0, 0, 0>>
\* the account history column reset() writes
ResetColumn == <<initial_balance, 0, 0, 0, 0>>

\* --------------------------------------------------- environment operations
\* reset()
ResetLedger ==
    /\ balance' = initial_balance
    /\ net_worths' = <<initial_balance>>
    /\ btc_held' = 0
    /\ current_step' = 0
    /\ account_history' = <<ResetColumn>>
    /\ trades' = <<>>
    /\ is_reset' = TRUE
    /\ past_done' = FALSE
    /\ undeclared' = FALSE
    /\ UNCHANGED settings

ResetEnv ==
    /\ ObservationBuilt(0, <<ResetColumn>>)
    /\ ResetLedger
    /\ returned' = [op |-> "reset", action |-> 0, at_step |-> current_step,
                    obs |-> _next_observation(0, <<ResetColumn>>),
                    reward |-> 0, done |-> FALSE, error |-> ""]

\* reset(), when _next_observation raises: the Ledger is already reset
ResetRaisesEnv ==
    /\ ~ObservationBuilt(0, <<ResetColumn>>)
    /\ ResetLedger
    /\ returned' = [op |-> "reset", action |-> 0, at_step |-> current_step,
                    obs |-> NoObs,
                    reward |-> 0, done |-> FALSE, error |-> ObservationError(0)]

\* step(action), when _current_price finds its row
\* a step that overwrites the last account history column instead of appending
StepOverwritingColumn(action) ==
    /\ is_reset
    /\ PriceInRange
    /\ LET led == _take_action(action)
       IN  /\ balance' = led.balance
           /\ btc_held' = led.btc_held
           /\ trades' = led.trades
           /\ net_worths' = Append(net_worths, led.net_worth)
           /\ account_history' =
                [account_history EXCEPT ![Len(account_history)] = led.column]
    /\ current_step' = current_step + 1
    /\ past_done' = (past_done \/ returned.done)
    /\ undeclared' = (undeclared \/ action \notin ActionCodes)
    /\ UNCHANGED <<settings, is_reset>>

\* step(action) up to the increment of current_step
StepLedger(action) ==
    /\ is_reset
    /\ PriceInRange
    /\ LET led == _take_action(action)
       IN  /\ balance' = led.balance
           /\ btc_held' = led.btc_held
           /\ trades' = led.trades
           /\ net_worths' = Append(net_worths, led.net_worth)
           /\ account_history' = Append(account_history, led.column)
    /\ current_step' = current_step + 1
    /\ past_done' = (past_done \/ returned.done)
    /\ undeclared' = (undeclared \/ action \notin ActionCodes)
    /\ UNCHANGED <<settings, is_reset>>

StepEnv(action) ==
    /\ StepLedger(action)
    /\ ObservationBuilt(current_step', account_history')
    /\ \E ratio \in RatioValues :
         returned' = [op |-> "step", action |-> action, at_step |-> current_step,
                      obs |-> _next_observation(current_step', account_history'),
                      reward |-> _reward(net_worths', ratio),
                      done |-> _done(current_step', net_worths'),
                      error |-> ""]

\* step(action), when _next_observation raises: _take_action and the increment
\* of current_step have happened, and nothing is returned
StepObsRaisesEnv(action) ==
    /\ StepLedger(action)
    /\ ~ObservationBuilt(current_step', account_history')
    /\ returned' = [op |-> "step", action |-> action, at_step |-> current_step,
                    obs |-> NoObs, reward |-> 0, done |-> FALSE,
                    error |-> ObservationError(current_step')]

\* step(action), when current_step + n_forecasts is past the table's end:
\* _current_price raises IndexError on the first line of _take_action
StepRaisesEnv ==
    /\ is_reset
    /\ ~PriceInRange
    /\ returned' = [op |-> "step", action |-> 0, at_step |-> current_step,
                    obs |-> NoObs,
                    reward |-> 0, done |-> FALSE, error |-> "IndexError"]
    /\ past_done' = (past_done \/ returned.done)
    /\ UNCHANGED <<settings, is_reset, balance, btc_held, net_worths,
                   account_history, trades, current_step, undeclared>>

\* render() and close() return nothing: what the call leaves in returned
Outcome(op, error) ==
    [op |-> op, action |-> 0, at_step |-> current_step, obs |-> NoObs, reward |-> 0,
     done |-> FALSE, error |-> error]

\* a read of the column after the one current_step names
column_after(step) == step + 2
\* account_history[row][step]: the column's place in the sequence of columns
column_at(step) == step + 1

\* render('system'): _current_price, then account_history[2][current_step],
\* account_history[4][current_step] and net_worths[-1] are printed
render_system ==
    IF ~is_reset THEN "AttributeError"
    ELSE IF ~PriceInRange THEN "IndexError"
    ELSE IF column_at(current_step) \notin 1 .. Len(account_history)
         THEN "IndexError: account_history"
    ELSE ""

\* render('human'): the viewer is built on first use and draws current_step,
\* net_worths and trades
render_human == IF ~is_reset THEN "AttributeError" ELSE ""

RenderModes == {"human", "system", "none"}

\* render(mode)
RenderEnv(mode) ==
    /\ returned' = Outcome("render " \o mode,
                           IF mode = "system" THEN render_system
                           ELSE IF mode = "human" THEN render_human
                           ELSE "")
    /\ viewer' = IF mode = "human" THEN "BitcoinTradingGraph" ELSE viewer
    /\ past_done' = (past_done \/ returned.done)
    /\ UNCHANGED <<df, n_forecasts, commission, reward_func, columns, unfit, is_reset,
                   balance, btc_held, net_worths, account_history, trades,
                   current_step, undeclared>>

\* close()
CloseEnv ==
    /\ returned' = Outcome("close", "")
    /\ viewer' = "None"
    /\ past_done' = (past_done \/ returned.done)
    /\ UNCHANGED <<df, n_forecasts, commission, reward_func, columns, unfit, is_reset,
                   balance, btc_held, net_worths, account_history, trades,
                   current_step, undeclared>>

\* __init__: the state after construction, for price tables, commissions and
\* reward functions drawn from the given sets
InitEnv(tables, commissions, funcs) ==
    /\ df \in tables
    /\ n_forecasts = Forecasts
    /\ commission \in commissions
    /\ reward_func \in funcs
    /\ is_reset = FALSE
    /\ balance = 0
    /\ btc_held = 0
    /\ net_worths = <<>>
    /\ account_history = <<>>
    /\ trades = <<>>
    /\ current_step = 0
    /\ past_done = FALSE
    /\ undeclared = FALSE
    /\ returned = [op |-> "init", action |-> 0, at_step |-> 0, obs |-> NoObs,
                   reward |-> 0,
                   done |-> FALSE, error |-> ""]

\* __init__, continued: the table's columns, with the step indices at which the
\* forecaster cannot fit this table; no viewer yet
InitFrame(column_sets, unfits) ==
    /\ columns \in column_sets
    /\ unfit \in unfits
    /\ viewer = "None"

\* ------------------------------------------------- the search driver
\* optimize.py builds train_env and test_env once, at module level, and
\* study.optimize(optimize_agent, n_jobs = n_jobs) runs optimize_agent in n_jobs
\* worker threads.  The environment variables above are the test_env instance.
Workers == 1 .. Jobs
\* the codes model.predict returns
PredictedActions == {0, 4, 8}
\* the float infinity of np.inf
Infinity == 2 ^ 30

VARIABLES
    model,       \* per worker: the trial's model object and where its trial stands
    reports,     \* per worker: the (value, step) pairs given to trial.report
    env_user     \* the worker whose call reset or stepped test_env last (0: none)

trialVars == <<model, reports, env_user>>
vars == <<envVars, trialVars>>

NewModel ==
    [pc |-> "idle", num_timesteps |-> 0, has_attrs |-> FALSE, is_pruned |-> FALSE,
     last_mean_test_reward |-> 0, last_time_evaluated |-> 0, eval_idx |-> 0,
     n_episodes |-> 0, reward_sum |-> 0, rewards |-> <<>>, cost |-> 0]

InitTrials ==
    /\ model = [w \in Workers |-> NewModel]
    /\ reports = [w \in Workers |-> <<>>]
    /\ env_user = 0

\* the attributes learn_callback creates on its first call
WithAttrs(m) ==
    IF m.has_attrs THEN m
    ELSE [m EXCEPT !.has_attrs = TRUE, !.is_pruned = FALSE,
                   !.last_mean_test_reward = 0 - Infinity,
                   !.last_time_evaluated = 0, !.eval_idx = 0]

\* np.mean(rewards)
RECURSIVE SumOf(_)
SumOf(seq) == IF seq = <<>> THEN 0 ELSE FAdd(SumOf(SubSeq(seq, 1, Len(seq) - 1)), Last(seq))
MeanOf(seq) == FDiv(SumOf(seq), Lit(Len(seq), 1))

\* optimize_agent up to model.learn: the model gets the module's test_env
StartTrial(w) ==
    /\ model[w].pc = "idle"
    /\ model' = [model EXCEPT ![w].pc = "learn"]
    /\ UNCHANGED <<envVars, reports, env_user>>

\* model.learn: one update of Batch training timesteps, then the callback
LearnUpdate(w) ==
    /\ model[w].pc = "learn"
    /\ model[w].num_timesteps < Timesteps
    /\ model' = [model EXCEPT ![w].num_timesteps = @ + Batch, ![w].pc = "callback"]
    /\ UNCHANGED <<envVars, reports, env_user>>

\* model.learn returns after n_timesteps
LearnDone(w) ==
    /\ model[w].pc = "learn"
    /\ model[w].num_timesteps >= Timesteps
    /\ model' = [model EXCEPT ![w].pc = "close"]
    /\ UNCHANGED <<envVars, reports, env_user>>

\* model.learn raises AssertionError (random hyperparameters can produce NaN):
\* optimize_agent closes the environments (no viewer: nothing to release) and
\* raises it again
LearnAsserts(w) ==
    /\ model[w].pc = "learn"
    /\ model[w].num_timesteps < Timesteps
    /\ model' = [model EXCEPT ![w].pc = "assertion_error"]
    /\ UNCHANGED <<envVars, reports, env_user>>

\* learn_callback, lines 85-92: too early to evaluate
CallbackSkip(w) ==
    /\ model[w].pc = "callback"
    /\ model[w].num_timesteps - WithAttrs(model[w]).last_time_evaluated
         < evaluation_interval
    /\ model' = [model EXCEPT ![w] = [WithAttrs(model[w]) EXCEPT !.pc = "learn"]]
    /\ UNCHANGED <<envVars, reports, env_user>>

\* learn_callback, lines 85-99: an evaluation begins with test_env.reset()
CallbackEvaluate(w) ==
    /\ model[w].pc = "callback"
    /\ model[w].num_timesteps - WithAttrs(model[w]).last_time_evaluated
         >= evaluation_interval
    /\ ResetEnv
    /\ env_user' = w
    /\ model' = [model EXCEPT ![w] =
                    [WithAttrs(model[w]) EXCEPT
                        !.last_time_evaluated = model[w].num_timesteps,
                        !.rewards = <<>>, !.n_episodes = 0, !.reward_sum = 0,
                        !.pc = "eval"]]
    /\ UNCHANGED reports

\* learn_callback, lines 100-108: one pass of the loop up to the step's result
EvalStep(w) ==
    /\ model[w].pc = "eval"
    /\ model[w].n_episodes < TestEpisodes
    /\ \E action \in PredictedActions : StepEnv(action)
    /\ env_user' = w
    /\ LET sum == FAdd(model[w].reward_sum, returned'.reward)
       IN  model' = [model EXCEPT ![w] =
                        IF returned'.done
                        THEN [@ EXCEPT !.rewards = Append(@, sum), !.reward_sum = 0,
                                       !.n_episodes = @ + 1, !.pc = "vec_reset"]
                        ELSE [@ EXCEPT !.reward_sum = sum]]
    /\ UNCHANGED reports

\* test_env.step raises: the exception leaves learn_callback, model.learn and
\* optimize_agent (only AssertionError is caught), and the trial fails
EvalStepRaises(w) ==
    /\ model[w].pc = "eval"
    /\ model[w].n_episodes < TestEpisodes
    /\ StepRaisesEnv
    /\ env_user' = w
    /\ model' = [model EXCEPT ![w].pc = "failed"]
    /\ UNCHANGED reports

\* DummyVecEnv.step resets an environment whose step returned done
VecReset(w) ==
    /\ model[w].pc = "vec_reset"
    /\ ResetEnv
    /\ env_user' = w
    /\ model' = [model EXCEPT ![w].pc = "eval_reset"]
    /\ UNCHANGED reports

\* learn_callback, line 109
EvalReset(w) ==
    /\ model[w].pc = "eval_reset"
    /\ ResetEnv
    /\ env_user' = w
    /\ model' = [model EXCEPT ![w].pc = "eval"]
    /\ UNCHANGED reports

\* learn_callback, lines 111-121: report, and stop the training when the pruner
\* says so
EvalDone(w) ==
    /\ model[w].pc = "eval"
    /\ model[w].n_episodes >= TestEpisodes
    /\ \E should_prune \in BOOLEAN :
         LET mean_reward == MeanOf(model[w].rewards)
             idx == model[w].eval_idx + 1
         IN  /\ reports' = [reports EXCEPT ![w] =
                               Append(@, [value |-> 0 - mean_reward, step |-> idx])]
             /\ model' = [model EXCEPT ![w] =
                             [@ EXCEPT !.last_mean_test_reward = mean_reward,
                                       !.eval_idx = idx,
                                       !.is_pruned = should_prune,
                                       !.pc = IF should_prune THEN "close" ELSE "learn"]]
    /\ UNCHANGED <<envVars, env_user>>

\* an optimize_agent that returns the cost of a pruned trial too
FinishWithCost(w) ==
    /\ model[w].pc = "close"
    /\ model' = [model EXCEPT ![w] =
                    IF ~@.has_attrs THEN [@ EXCEPT !.cost = Infinity, !.pc = "returned"]
                    ELSE [@ EXCEPT !.cost = 0 - model[w].last_mean_test_reward,
                                   !.pc = "returned"]]
    /\ UNCHANGED <<envVars, reports, env_user>>

\* optimize_agent, lines 143-164: close the environments (no viewer: nothing to
\* release), then raise TrialPruned or return the cost
FinishTrial(w) ==
    /\ model[w].pc = "close"
    /\ model' = [model EXCEPT ![w] =
                    IF ~@.has_attrs THEN [@ EXCEPT !.cost = Infinity, !.pc = "returned"]
                    ELSE IF @.is_pruned THEN [@ EXCEPT !.pc = "pruned"]
                    ELSE [@ EXCEPT !.cost = 0 - model[w].last_mean_test_reward,
                                   !.pc = "returned"]]
    /\ UNCHANGED <<envVars, reports, env_user>>

\* ------------------------------------------------------------ specifications
\* one environment with the default reward_func, any caller
Init ==
    /\ InitEnv(PriceTables, Commissions, {"sortino"})
    /\ InitFrame({DataColumns}, {{}})
    /\ InitTrials

Reset == ResetEnv /\ UNCHANGED trialVars
Step ==
    /\ \E action \in ActionCodes \cup OutOfRangeCodes : StepEnv(action)
    /\ UNCHANGED trialVars
StepRaises == StepRaisesEnv /\ UNCHANGED trialVars

Next == Reset \/ Step \/ StepRaises

Spec == Init /\ [][Next]_vars

\* environments that differ in reward_func
InitReward ==
    /\ InitEnv(TablesOfLen(MaxLen - 1), Commissions, RewardFuncs)
    /\ InitFrame({DataColumns}, {{}})
    /\ InitTrials
SpecReward == InitReward /\ [][Next]_vars

\* environments whose table may lack the Date column and whose forecaster may
\* fail to fit at some step index
InitObs ==
    /\ InitEnv(TablesOfLen(MaxLen - 1), {0}, {"sortino"})
    /\ InitFrame(ColumnSets, Unfits)
    /\ InitTrials

ResetRaises == ResetRaisesEnv /\ UNCHANGED trialVars
StepObsRaises ==
    /\ \E action \in ActionCodes : StepObsRaisesEnv(action)
    /\ UNCHANGED trialVars

NextObs == Reset \/ ResetRaises \/ Step \/ StepObsRaises \/ StepRaises

SpecObs == InitObs /\ [][NextObs]_vars

\* one environment that is also rendered and closed
InitRender ==
    /\ InitEnv(TablesOfLen(MaxLen - 1), {0}, {"sortino"})
    /\ InitFrame({DataColumns}, Unfits)
    /\ InitTrials

Render ==
    /\ \E mode \in RenderModes : RenderEnv(mode)
    /\ UNCHANGED trialVars
Close == CloseEnv /\ UNCHANGED trialVars

NextRender ==
    Reset \/ ResetRaises \/ Step \/ StepObsRaises \/ StepRaises \/ Render \/ Close

SpecRender == InitRender /\ [][NextRender]_vars

\* the search driver: Jobs trials on the module's test_env, built with the
\* default arguments on one price table
TestTable == [i \in 1 .. MaxLen |-> IF i <= Forecasts THEN FirstPrice
                                     ELSE CHOOSE p \in ClosePrices : p # FirstPrice]
InitDriver ==
    /\ InitEnv({TestTable}, {Lit(3, 10000)}, {"sortino"})
    /\ InitFrame({DataColumns}, {{}})
    /\ InitTrials

NextDriver ==
    \E w \in Workers :
        \/ StartTrial(w)
        \/ LearnUpdate(w)
        \/ LearnDone(w)
        \/ LearnAsserts(w)
        \/ CallbackSkip(w)
        \/ CallbackEvaluate(w)
        \/ EvalStep(w)
        \/ EvalStepRaises(w)
        \/ VecReset(w)
        \/ EvalReset(w)
        \/ EvalDone(w)
        \/ FinishTrial(w)

SpecDriver == InitDriver /\ [][NextDriver]_vars

\* ------------------------------------------------------------------ claims
\* the latest call was a step that returned (it did not raise)
Stepped == returned.op = "step" /\ returned.error = ""
\* every step since the reset passed a code of the declared action space
DeclaredOnly == is_reset /\ ~undeclared

Ledger == <<balance, btc_held, net_worths, account_history, trades, current_step>>
\* len(df) - n_forecasts - 1, the step index of the horizon clause
Horizon == Len(df) - n_forecasts - 1

\* C1: in every state reached from reset() by steps with declared codes (on a
\* price table long enough for an episode), balance >= 0 and btc_held >= 0.
C1_NonNegative == (DeclaredOnly /\ Horizon >= 1) => (balance >= 0 /\ btc_held >= 0)

\* C2: after every step, the last net worth equals balance + btc_held * price,
\* the price being the current price of the state the step leaves.
C2_NetWorthAtNewPrice ==
    (Stepped /\ PriceInRange) =>
        Last(net_worths) = FAdd(balance, FMul(btc_held, _current_price))
\* C2 (amended): after every step, the last net worth equals balance +
\* btc_held * price, the price being the one the action executed at, that of
\* the step index before the increment.
C2_NetWorthAtTradePrice ==
    Stepped =>
        Last(net_worths) = FAdd(balance, FMul(btc_held, PriceAt(current_step - 1)))
C2_Witness ==
    /\ Stepped
    /\ btc_held > 0
    /\ PriceInRange
    /\ PriceAt(current_step) # PriceAt(current_step - 1)

\* the reference effect of a declared code a, with actionType = a div 4 and
\* fraction = 1 / (a mod 4 + 1)
ReferenceEffect(a) ==
    LET fraction == FDiv(One, Lit((a % 4) + 1, 1))
        price == _current_price
    IN  /\ (a \div 4 = 0) =>
              /\ balance' = FMul(balance, FSub(One, fraction))
              /\ btc_held' = FAdd(btc_held, FDiv(FMul(balance, fraction),
                                                 FMul(price, FAdd(One, commission))))
        /\ (a \div 4 = 1) =>
              /\ btc_held' = FMul(btc_held, FSub(One, fraction))
              /\ balance' = FAdd(balance, FMul(FMul(FMul(btc_held, fraction), price),
                                               FSub(One, commission)))
        /\ (a = 0) => balance' = 0
        /\ (a = 4) => btc_held' = 0
\* C3: every step with a declared code has the reference effect; action 0 leaves
\* balance 0 and action 4 leaves btc_held 0.
C3_ReferenceFormulas ==
    [][\A a \in ActionCodes :
          (DeclaredOnly /\ Horizon >= 1 /\ StepEnv(a)) => ReferenceEffect(a)]_vars

\* C4: a step with a hold code (8..11) leaves balance, btc_held and the trade log
\* unchanged, appends one net worth and the column (balance, 0, 0, 0, 0), and
\* advances current_step by 1.
C4_HoldFrame ==
    [][\A a \in ActionCodes :
          (a \div 4 >= 2 /\ StepEnv(a)) =>
              /\ UNCHANGED <<balance, btc_held, trades>>
              /\ Len(net_worths') = Len(net_worths) + 1
              /\ account_history' = Append(account_history, <<balance, 0, 0, 0, 0>>)
              /\ current_step' = current_step + 1]_vars
C4_Witness ==
    /\ Stepped
    /\ returned.action \in ActionCodes
    /\ returned.action \div 4 >= 2
    /\ balance > 0
    /\ btc_held > 0
    /\ trades # <<>>

\* C5: reset(), called in any state, leaves the fixed initial state and returns
\* the same initial observation.
C5_ResetState ==
    returned.op = "reset" =>
        /\ balance = initial_balance
        /\ btc_held = 0
        /\ net_worths = <<initial_balance>>
        /\ account_history = <<(<<initial_balance, 0, 0, 0, 0>>)>>
        /\ trades = <<>>
        /\ current_step = 0
        /\ returned.obs.account = <<One, 0, 0, 0, 0>>
        /\ returned.obs.rows = IF n_forecasts + 1 < Len(df) THEN n_forecasts + 1
                               ELSE Len(df)
C5_Witness ==
    /\ returned.op = "reset"
    /\ returned.at_step > 1

\* C6: the done flag of every step is true exactly when the latest net worth is
\* strictly below initial_balance / 10 or current_step is len(df) - n_forecasts - 1.
C6_DoneIff ==
    Stepped =>
        (returned.done <=>
            (\/ Last(net_worths) < FDiv(initial_balance, Ten)
             \/ current_step = Len(df) - n_forecasts - 1))
C6_Witness ==
    /\ Stepped
    /\ returned.done
    /\ current_step # Horizon
    /\ Last(net_worths) < FDiv(initial_balance, Ten)

\* C7: with step called only before the first done, every step returns done no
\* later than at the horizon, so current_step never passes len(df) - n_forecasts - 1.
C7_StepBound ==
    (Stepped /\ ~past_done /\ DeclaredOnly) =>
        /\ current_step = returned.at_step + 1
        /\ current_step <= Horizon
        /\ PriceInRange

\* C8: the reward of every step is the latest net worth minus the one before,
\* whatever reward_func is.
C8_RewardIsDelta ==
    Stepped =>
        returned.reward = FSub(net_worths[Len(net_worths)],
                               net_worths[Len(net_worths) - 1])
C8_Witness ==
    /\ Stepped
    /\ reward_func = "omega"
    /\ returned.reward < 0

\* C9: a step with a code outside 0..11 changes nothing of the Ledger or the
\* episode state.
C9_OutOfRangeRejected ==
    [][\A a \in OutOfRangeCodes :
          (Horizon >= 1 /\ StepEnv(a)) => UNCHANGED Ledger]_vars

\* C10: trials run in parallel each operate on their own environment: while a
\* trial is inside an evaluation (between its test_env.reset() and the end of
\* the episode loop), the latest reset or step of the environment it evaluates
\* on is its own, so no other trial's call has altered its episode.
Evaluating(w) == model[w].pc \in {"eval", "vec_reset", "eval_reset"}
C10_IsolatedEpisodes == \A w \in Workers : Evaluating(w) => env_user = w

\* C11: every observation reset() or step() returns has exactly
\* 5 + (number of columns - 2) + 3 * n_forecasts values, the shape declared at
\* construction: the stationarized columns other than index and Date, n_forecasts
\* forecast means, 2 * n_forecasts interval bounds and 5 account values.
ObservationReturned == returned.op \in {"reset", "step"} /\ returned.error = ""
C11_ObservationShape ==
    ObservationReturned =>
        /\ ObsLen(returned.obs) = 5 + (Cardinality(columns) - 2) + 3 * n_forecasts
        /\ returned.obs.scaled = Cardinality(stationary_columns \ {"index", "Date"})
        /\ returned.obs.predicted_mean = n_forecasts
        /\ returned.obs.conf_int = 2 * n_forecasts
        /\ Len(returned.obs.account) = 5
C11_Witness == returned.op = "step" /\ returned.error = "" /\ current_step > 1

\* C12: when the forecaster's fit fails during reset() or step(), the call
\* still returns an observation (with a neutral forecast) instead of raising.
C12_FitFailureTolerated == returned.op \in {"reset", "step"} => returned.error # "FitError"

\* C13: an environment whose price table has too few rows for the forecast
\* horizon (len(df) - n_forecasts - 1 <= 0) fails at construction, so none is
\* ever reset or stepped.
C13_ShortTableRejected == returned.op # "init" => Horizon >= 1

\* C14: render() in every mode and close() leave balance, position, the two
\* histories, the trade log and current_step unchanged, and render('system')
\* never reads account_history outside its columns.
C14_RenderFrame ==
    [][/\ \A mode \in RenderModes :
             RenderEnv(mode) =>
                 /\ UNCHANGED Ledger
                 /\ returned'.error # "IndexError: account_history"
       /\ CloseEnv => UNCHANGED Ledger]_vars
C14_Witness ==
    /\ returned.op = "render system"
    /\ returned.error = ""
    /\ current_step > 0
    /\ trades # <<>>

\* C15: a step appends exactly one trade-log entry when the amount it bought or
\* sold is strictly positive and none otherwise (so none on a hold, on a buy with
\* balance 0 and on a sell with position 0); the entry is tagged 'buy' or 'sell'
\* after the action type and carries the step index from before the increment,
\* so the entries' step indices increase strictly and stay below current_step.
TradedColumn(col) == col[2] > 0 \/ col[4] > 0
SteppedBy(a) ==
    /\ returned'.op = "step"
    /\ returned'.error = ""
    /\ returned'.action = a
    /\ current_step' = current_step + 1
C15_TradeLog ==
    [][\A a \in {returned'.action} :
          SteppedBy(a) =>
            /\ IF TradedColumn(Last(account_history'))
               THEN /\ trades' = Append(trades, Last(trades'))
                    /\ Last(trades').step = current_step
                    /\ action_type(a) \in {0, 1}
                    /\ Last(trades').type = IF action_type(a) = 0 THEN "buy" ELSE "sell"
               ELSE trades' = trades
            /\ action_type(a) >= 2 => trades' = trades
            /\ (action_type(a) = 0 /\ balance = 0) => trades' = trades
            /\ (action_type(a) = 1 /\ btc_held = 0) => trades' = trades
            /\ \A i \in 1 .. Len(trades') :
                 /\ trades'[i].step < current_step'
                 /\ i > 1 => trades'[i - 1].step < trades'[i].step]_vars
C15_Witness ==
    /\ Stepped
    /\ Len(trades) >= 2
    /\ trades[1].type = "buy"
    /\ Last(trades).type = "sell"
    /\ Last(trades).step < current_step - 1

\* C16: within a trial the callback evaluates only when evaluation_interval
\* training timesteps have passed since the evaluation before (so the k-th
\* evaluation comes no earlier than timestep k * evaluation_interval); every
\* evaluation it begins runs its n_test_episodes episodes to the end, one entry
\* of rewards per episode, and is reported once, under the next index: the
\* reported indices are 1, 2, 3, ... and there are eval_idx of them.
InEvaluation(m) == m.pc \in {"eval", "vec_reset", "eval_reset"}
C16_Evaluations ==
    \A w \in Workers :
        LET m == model[w]
        IN  /\ m.pc # "failed"
            /\ Len(reports[w]) = m.eval_idx
            /\ \A i \in 1 .. Len(reports[w]) : reports[w][i].step = i
            /\ m.last_time_evaluated >=
                 (m.eval_idx + IF InEvaluation(m) THEN 1 ELSE 0) * evaluation_interval
            /\ InEvaluation(m) =>
                 /\ Len(m.rewards) = m.n_episodes
                 /\ m.n_episodes <= TestEpisodes
            /\ Len(reports[w]) > 0 =>
                 /\ Len(m.rewards) = TestEpisodes \/ InEvaluation(m)
                 /\ Last(reports[w]).value = 0 - m.last_mean_test_reward

\* C17: a trial ends pruned exactly when should_prune answered true at one of
\* its evaluations (is_pruned is set and TrialPruned raised); every other trial
\* ends by returning -1 * the mean test reward of its last evaluation, infinity
\* when it never evaluated.
Ended(m) == m.pc \in {"pruned", "returned", "failed", "assertion_error"}
IsPrefix(old, new) == Len(old) <= Len(new) /\ SubSeq(new, 1, Len(old)) = old
C18_Histories ==
    [][is_reset' =>
         /\ Len(net_worths') = current_step' + 1
         /\ Len(account_history') = current_step' + 1
         /\ account_history'[1] = <<initial_balance, 0, 0, 0, 0>>
         /\ Last(account_history')[1] = balance'
         /\ (is_reset /\ returned'.op # "reset") =>
              /\ IsPrefix(net_worths, net_worths')
              /\ IsPrefix(account_history, account_history')]_vars
C18_Witness ==
    /\ Stepped
    /\ current_step > 1
    /\ balance # initial_balance
    /\ account_history[2] # Last(account_history)

\* C19: with commission >= 0 no action raises the net worth taken at the price
\* it executes at: the net worth a step appends is at most balance + btc_held *
\* current_price from before the action, and equal to it on a hold and on a
\* trade of size zero.
NetWorthBefore == FAdd(balance, FMul(btc_held, _current_price))
TradedAmount(col) == IF col[4] > 0 THEN col[4] ELSE col[2]
C19_NoGain ==
    [][\A a \in {returned'.action} :
          (SteppedBy(a) /\ a \in ActionCodes /\ DeclaredOnly /\ Horizon >= 1) =>
            /\ Last(net_worths') <= NetWorthBefore
            /\ (action_type(a) >= 2 \/ TradedAmount(Last(account_history')) = 0) =>
                 Last(net_worths') = NetWorthBefore]_vars

=============================================================================
